---- MODULE Spec2Model ----
(***************************************************************************)
(* A model of wpm_overlay.py: the keystroke-rate estimator of the WPM      *)
(* overlay.  Two threads share the EventLog (self.timestamps) and the      *)
(* WordBuffer (self.current_word_chars) under self.lock:                   *)
(*   - the pynput listener thread, which runs on_press once per key press, *)
(*   - the Tk main thread, which runs update_ui (three calculate_wpm       *)
(*     calls, then the labels, the history and the graph) on a timer.      *)
(* Clock readings (time.perf_counter) are modelled as integer seconds.     *)
(* The float subtractions now - time_window and now - max(70, w + 5) are   *)
(* exact for such readings, so the comparisons are modelled on integers;   *)
(* the float divisions of calculate_wpm are not exact and are modelled     *)
(* bit by bit (IEEE-754 binary64, round to nearest even).                  *)
(***************************************************************************)
EXTENDS Integers, Sequences, FiniteSets, TLC

VARIABLES
    COUNT_WORDS_MODE,    \* module flag, fixed at startup
    LOG_KEYS,            \* module flag, fixed at startup
    clock,               \* time.perf_counter(), in seconds
    lock,                \* self.lock: TRUE when locked
    timestamps,          \* self.timestamps (deque), oldest first
    current_word_chars,  \* self.current_word_chars
    wpm_history,         \* self.wpm_history (deque, maxlen HISTORY_LEN)
    fg_color,            \* self.fg_color
    recorded,            \* history: every timestamp ever appended, in append order
    ppc,                 \* listener thread: position in on_press
    p_now,               \* on_press: local now
    p_key,               \* on_press: the key event, while the code still reads it
    p_blk,               \* on_press: which "with self.lock" block it is at
    tpc,                 \* main thread: position in update_ui / calculate_wpm
    t_i,                 \* update_ui: which of its three calls runs (0: a direct call)
    t_w,                 \* calculate_count: time_window
    t_now,               \* calculate_count: local now
    t_cnt,               \* calculate_count: cnt
    t_ret,               \* calculate_wpm: what the call returned
    t_wpm,               \* update_ui: <<w15, w30, w60>> as far as computed
    t_overlap,           \* history: an on_press ran during the current calculate_count
    script,              \* the key events a scripted run delivers
    pos,                 \* how many of them were delivered
    sampled,             \* history: every sample ever appended to wpm_history, in order
    p_wrote,             \* history: how the diagnostic write of the last on_press ended
    c_wpm,               \* get_color_for_wpm called on its own: the argument
    c_col                \* get_color_for_wpm called on its own: what it returned

vars == << COUNT_WORDS_MODE, LOG_KEYS, clock, lock, timestamps, current_word_chars,
           wpm_history, fg_color, recorded, ppc, p_now, p_key, p_blk,
           tpc, t_i, t_w, t_now, t_cnt, t_ret, t_wpm, t_overlap, script, pos,
           sampled, p_wrote, c_wpm, c_col >>

-----------------------------------------------------------------------------
(* Program constants *)

HISTORY_LEN == 60

\* max(70, time_window + 5): the floor of the retention horizon
MinHorizon == 70

\* time_window + 5: the margin added to the window
HorizonMargin == 5

\* count / 5.0
CharsPerWord == 5

\* time_window / 60.0
SecondsPerMinute == 60

\* the windows update_ui queries, in the order it queries them
UiWindows == << 15, 30, 60 >>

\* COLOR_THRESHOLDS, in insertion order
COLOR_THRESHOLDS ==
    << [name |-> "slow", thr |-> 30,   col |-> "#ff4d4f"],
       [name |-> "avg",  thr |-> 60,   col |-> "#ffad14"],
       [name |-> "good", thr |-> 90,   col |-> "#00c853"],
       [name |-> "best", thr |-> 9999, col |-> "#02d9f6"] >>

-----------------------------------------------------------------------------
(* Bounds of the model *)

\* the clock advances in steps of TickStep seconds ...
TickStep == 15

\* ... up to MaxClock
MaxClock == 90

\* timestamps recorded per run of the program ...
MaxEvents == 2

\* ... and per run of the direct calls
ApiEvents == 3

\* characters the WordBuffer holds before the next space or enter
MaxWord == 1

\* update_ui ticks per run
MaxTicks == 2

\* length of the short scripts of the scripted runs
MaxScript == 2

\* the clock step of the scripted runs
ScriptStep == 75

-----------------------------------------------------------------------------
(* IEEE-754 binary64 arithmetic, as far as calculate_wpm uses it.          *)
(* A wide natural is [hi, lo] with value hi * 2^27 + lo and lo < 2^27, so  *)
(* that every step stays inside 32-bit integers.  A float is [s, m, e]:    *)
(* sign s in {-1, 0, 1}, m a wide natural with 2^52 <= m < 2^53, value     *)
(* s * m * 2^e.                                                            *)

\* 2^27
LimbBase == 134217728

\* bits of a binary64 significand
MantBits == 53

RECURSIVE Pow2(_)
Pow2(k) == IF k <= 0 THEN 1 ELSE 2 * Pow2(k - 1)

RECURSIVE BitLen(_)
BitLen(n) == IF n = 0 THEN 0 ELSE 1 + BitLen(n \div 2)

Sign(n) == IF n > 0 THEN 1 ELSE IF n < 0 THEN -1 ELSE 0

Abs(n) == IF n < 0 THEN -n ELSE n

WideZero == [hi |-> 0, lo |-> 0]

\* 2 * a + bit
WideDouble(a, bit) ==
    [hi |-> 2 * a.hi + (2 * a.lo + bit) \div LimbBase, lo |-> (2 * a.lo + bit) % LimbBase]

\* a \div 2
WideHalf(a) ==
    [hi |-> a.hi \div 2, lo |-> a.lo \div 2 + (a.hi % 2) * (LimbBase \div 2)]

WideGeq(a, b) == a.hi > b.hi \/ (a.hi = b.hi /\ a.lo >= b.lo)

\* a - b for a >= b
WideMinus(a, b) ==
    IF a.lo >= b.lo THEN [hi |-> a.hi - b.hi, lo |-> a.lo - b.lo]
    ELSE [hi |-> a.hi - b.hi - 1, lo |-> a.lo + LimbBase - b.lo]

WideInc(a) ==
    IF a.lo + 1 = LimbBase THEN [hi |-> a.hi + 1, lo |-> 0] ELSE [hi |-> a.hi, lo |-> a.lo + 1]

\* one step of restoring division: the next quotient bit and the remainder
DivStep(st, den) ==
    LET r2 == WideDouble(st.r, 0)
    IN  IF WideGeq(r2, den)
        THEN [q |-> WideDouble(st.q, 1), r |-> WideMinus(r2, den)]
        ELSE [q |-> WideDouble(st.q, 0), r |-> r2]

DivStep6(st, den) ==
    DivStep(DivStep(DivStep(DivStep(DivStep(DivStep(st, den), den), den), den), den), den)

RECURSIVE DivLoop(_, _, _)
DivLoop(st, den, n) ==
    IF n = 0 \/ st.r.hi < 0 THEN st ELSE DivLoop(DivStep6(st, den), den, n - 1)

\* floor(num * 2^54 / den) and whether the division left a remainder,
\* for 2^52 <= num, den < 2^53
WideDiv(num, den) ==
    LET first == IF WideGeq(num, den)
                 THEN [q |-> [hi |-> 0, lo |-> 1], r |-> WideMinus(num, den)]
                 ELSE [q |-> WideZero, r |-> num]
    IN  DivLoop(first, den, (MantBits + 1) \div 6)

FloatZero == [s |-> 0, m |-> WideZero, e |-> 0]

\* float(n) for an int n of at most 26 bits: exact
FromInt(n) ==
    IF n = 0 THEN FloatZero
    ELSE LET len == BitLen(Abs(n))
         IN  [s |-> Sign(n),
              m |-> [hi |-> Abs(n) * Pow2(MantBits - 27 - len), lo |-> 0],
              e |-> len - MantBits]

\* x / y for y # 0, rounded to nearest, ties to even
FDiv(x, y) ==
    IF x.s = 0 THEN FloatZero
    ELSE LET d      == WideDiv(x.m, y.m)
             long   == WideGeq(x.m, y.m)              \* the quotient has 55 bits, not 54
             q1     == IF long THEN WideHalf(d.q) ELSE d.q
             keep   == WideHalf(q1)
             sticky == d.r # WideZero \/ (long /\ d.q.lo % 2 = 1)
             up     == q1.lo % 2 = 1 /\ (sticky \/ keep.lo % 2 = 1)
             m1     == IF up THEN WideInc(keep) ELSE keep
             e1     == x.e - y.e - (MantBits + 1) + (IF long THEN 2 ELSE 1)
         IN  IF m1.hi >= LimbBase \div 2
             THEN [s |-> x.s * y.s, m |-> WideHalf(m1), e |-> e1 + 1]
             ELSE [s |-> x.s * y.s, m |-> m1, e |-> e1]

\* int(x): truncation toward zero, for |x| < 2^26
Trunc(x) ==
    IF x.s = 0 \/ MantBits + x.e <= 0 THEN 0
    ELSE x.s * (x.m.hi \div Pow2(- x.e - 27))

-----------------------------------------------------------------------------
(* Key events, as pynput hands them to on_press *)

NoChar == "None"

\* a control character: str.isprintable() is False
CtrlChar == "ctrl-a"

\* what a malformed event has in place of a character: using it raises
BadChar == "raises"

PrintableChars == {"h", "e", "l", "o", "w", "r", "d"}

CharKey(c) == [ch |-> c, key |-> "KeyCode"]
SpaceKey == [ch |-> NoChar, key |-> "Key.space"]
EnterKey == [ch |-> NoChar, key |-> "Key.enter"]
ShiftKey == [ch |-> NoChar, key |-> "Key.shift"]
CtrlKey == CharKey(CtrlChar)
MalformedKey == [ch |-> BadChar, key |-> "malformed"]

\* the key events of the unscripted runs
KeyEvents == {CharKey("h"), CtrlKey, SpaceKey, EnterKey, ShiftKey, MalformedKey}

\* h,e,l,l,o,<space>,w,o,r,l,d,<enter>
HelloWorld ==
    << CharKey("h"), CharKey("e"), CharKey("l"), CharKey("l"), CharKey("o"), SpaceKey,
       CharKey("w"), CharKey("o"), CharKey("r"), CharKey("l"), CharKey("d"), EnterKey >>

RECURSIVE SeqsUpTo(_, _)
SeqsUpTo(S, n) ==
    IF n = 0 THEN {<< >>}
    ELSE LET shorter == SeqsUpTo(S, n - 1)
         IN  shorter \cup {Append(q, x) : q \in shorter, x \in S}

\* the scripts of the scripted runs
Scripts == {HelloWorld} \cup SeqsUpTo(KeyEvents, MaxScript)

-----------------------------------------------------------------------------
(* on_press: classification (lines 251-288) *)

\* getattr(key, 'char', None) or ch.isprintable() raises
Faults(k) == k.ch = BadChar

\* a slip: no isprintable() test
IsPrintableAnyChar(ch) == ch # NoChar

IsPrintable(ch) == ch \in PrintableChars

\* a slip: Enter is not handled
IsSeparatorSpaceOnly(k) == k.ch = NoChar /\ k.key = "Key.space"

IsSeparator(k) == k.ch = NoChar /\ k.key \in {"Key.space", "Key.enter"}

\* should_count_keystroke
ShouldCount(k) ==
    IF k.ch # NoChar THEN IsPrintable(k.ch) ELSE IsSeparator(k)

\* a slip: the keystroke append of line 294 is not kept to keystroke mode
LockedBlockNoModeTest(k, words_mode) == IF k.ch # NoChar /\ IsPrintable(k.ch) THEN "ts"
                                        ELSE IF ~ IsSeparator(k) THEN "none"
                                        ELSE IF words_mode THEN "word" ELSE "ts"

\* the "with self.lock" block on_press runs for k: "buf" (262-263), "word"
\* (273-277, 282-285), "ts" (293-294) or "none"
LockedBlock(k, words_mode) ==
    IF ~ ShouldCount(k) THEN "none"
    ELSE IF ~ words_mode THEN "ts"
    ELSE IF k.ch # NoChar THEN "buf"
    ELSE "word"

\* a slip: appendleft
AppendTsLeft(ts, now) == << now >> \o ts

\* self.timestamps.append(now)
AppendTs(ts, now) == Append(ts, now)

\* a slip: the lock is not waited for
CanAcquireAnyway(l) == TRUE

\* "with self.lock": the lock can be taken when it is not locked
CanAcquire(l) == l = FALSE

-----------------------------------------------------------------------------
(* calculate_count, calculate_wpm, get_color_for_wpm *)

Max(a, b) == IF a >= b THEN a ELSE b

\* a slip: the horizon of the call's own window alone
CutoffOwnWindow(now, w) == now - (w + HorizonMargin)

\* cutoff = now - max(70, time_window + 5)
Cutoff(now, w) == now - Max(MinHorizon, w + HorizonMargin)

\* while self.timestamps and self.timestamps[0] < cutoff
PruneCond(ts, cutoff) == ts # << >> /\ Head(ts) < cutoff

\* the whole prune loop
RECURSIVE PruneAll(_, _)
PruneAll(ts, cutoff) ==
    IF PruneCond(ts, cutoff) THEN PruneAll(Tail(ts), cutoff) ELSE ts

\* a slip: > for >=
CountAfter(ts, from) == Cardinality({i \in 1..Len(ts) : ts[i] > from})

\* sum(1 for t in self.timestamps if t >= now - time_window)
CountSince(ts, from) == Cardinality({i \in 1..Len(ts) : ts[i] >= from})

\* calculate_count run alone (no other thread in between): the EventLog it
\* leaves and the count it returns
calculate_count(ts, now, w) ==
    LET pruned == PruneAll(ts, Cutoff(now, w))
    IN  [timestamps |-> pruned, cnt |-> CountSince(pruned, now - w)]

\* a slip: no "if minutes > 0"
calculate_wpm_unguarded(count, w) ==
    LET words   == FDiv(FromInt(count), FromInt(CharsPerWord))
        minutes == FDiv(FromInt(w), FromInt(SecondsPerMinute))
    IN  IF minutes.s = 0 THEN [raised |-> TRUE, value |-> 0]     \* ZeroDivisionError
        ELSE [raised |-> FALSE, value |-> Trunc(FDiv(words, minutes))]

\* a slip: minutes / words for words / minutes
calculate_wpm_inverted(count, w) ==
    LET words   == FDiv(FromInt(count), FromInt(CharsPerWord))
        minutes == FDiv(FromInt(w), FromInt(SecondsPerMinute))
    IN  [raised |-> FALSE,
         value  |-> IF minutes.s > 0 /\ words.s > 0 THEN Trunc(FDiv(minutes, words)) ELSE 0]

\* calculate_wpm, given the count calculate_count returned
calculate_wpm(count, w) ==
    LET words   == FDiv(FromInt(count), FromInt(CharsPerWord))
        minutes == FDiv(FromInt(w), FromInt(SecondsPerMinute))
    IN  [raised |-> FALSE,
         value  |-> IF minutes.s > 0 THEN Trunc(FDiv(words, minutes)) ELSE 0]

\* the windows of the direct calculate_wpm calls
DirectWindows == {-5, 0, 12, 15, 30, 60, 80}

\* calculate_wpm over the counts and windows of the model, computed once
WpmTable ==
    [c \in 0..Max(ApiEvents, Len(HelloWorld)), w \in DirectWindows \cup {UiWindows[i] : i \in 1..Len(UiWindows)}
        |-> calculate_wpm(c, w)]

RECURSIVE FirstBand(_, _)
FirstBand(bands, wpm) ==
    IF bands = << >> THEN COLOR_THRESHOLDS[4].col
    ELSE IF wpm <= Head(bands).thr THEN Head(bands).col
    ELSE FirstBand(Tail(bands), wpm)

\* a slip: "wpm < thr" for "wpm <= thr"
RECURSIVE FirstBandStrict(_, _)
FirstBandStrict(bands, wpm) ==
    IF bands = << >> THEN COLOR_THRESHOLDS[4].col
    ELSE IF wpm < Head(bands).thr THEN Head(bands).col
    ELSE FirstBandStrict(Tail(bands), wpm)

get_color_for_wpm_strict(wpm) == FirstBandStrict(COLOR_THRESHOLDS, wpm)

get_color_for_wpm(wpm) == FirstBand(COLOR_THRESHOLDS, wpm)

\* a slip: a deque without maxlen
HistoryAppendUnbounded(h, x) == Append(h, x)

\* deque(maxlen=HISTORY_LEN).append
HistoryAppend(h, x) ==
    IF Len(h) >= HISTORY_LEN THEN Append(Tail(h), x) ELSE Append(h, x)

-----------------------------------------------------------------------------
(* The state after construction *)

NoKey == [ch |-> NoChar, key |-> "none"]

NoResult == [raised |-> FALSE, value |-> 0]

InitCommon ==
    /\ COUNT_WORDS_MODE \in BOOLEAN
    /\ clock = 0
    /\ lock = FALSE
    /\ timestamps = << >>
    /\ current_word_chars = << >>
    /\ fg_color = "#00ff00"
    /\ recorded = << >>
    /\ ppc = "idle" /\ p_now = 0 /\ p_key = NoKey /\ p_blk = "none"
    /\ tpc = "idle" /\ t_i = 0 /\ t_w = 0 /\ t_now = 0 /\ t_cnt = 0
    /\ t_ret = NoResult /\ t_wpm = << >> /\ t_overlap = FALSE
    /\ pos = 0
    /\ sampled = wpm_history
    /\ p_wrote = "none"
    /\ c_wpm = 0 /\ c_col = "none"

\* LOG_KEYS = False (line 32), unless WPM_LOG_KEYS=1 (409-410)
Init == wpm_history = << >> /\ InitCommon /\ LOG_KEYS = FALSE /\ script = << >>

InitLog == wpm_history = << >> /\ InitCommon /\ LOG_KEYS = TRUE /\ script = << >>

InitScript == wpm_history = << >> /\ InitCommon /\ LOG_KEYS = FALSE /\ script \in Scripts

\* the program after HISTORY_LEN - 1 ticks during which nothing was typed: every
\* sample is 0 and nothing else has changed
InitHistory ==
    /\ wpm_history = [i \in 1..(HISTORY_LEN - 1) |-> 0]
    /\ InitCommon /\ LOG_KEYS = FALSE /\ script = << >>

flags == << COUNT_WORDS_MODE, LOG_KEYS >>
shared == << timestamps, current_word_chars, recorded >>
ui == << wpm_history, fg_color >>
listener == << ppc, p_now, p_key, p_blk >>
timer == << tpc, t_i, t_w, t_now, t_cnt, t_ret, t_wpm >>
input == << script, pos >>
probe == << c_wpm, c_col >>

-----------------------------------------------------------------------------
(* The clock *)

Tick ==
    /\ clock + TickStep <= MaxClock
    /\ clock' = clock + TickStep
    /\ UNCHANGED << flags, probe, sampled, p_wrote, lock, shared, ui, listener, timer, t_overlap, input >>

TickScript ==
    /\ clock + ScriptStep <= MaxClock
    /\ clock' = clock + ScriptStep
    /\ UNCHANGED << flags, probe, sampled, p_wrote, lock, shared, ui, listener, timer, t_overlap, input >>

-----------------------------------------------------------------------------
(* on_press, on the listener thread *)

\* a slip: no "except Exception" around the body: the exception leaves on_press
\* and ends the listener thread
ListenerAfterFaultUncaught == "dead"

\* where on_press is after a fault in its body: it has returned (304-306)
ListenerAfterFault == "idle"

\* where on_press goes once it is past its locked block: the diagnostic write
\* (297-302) when the sink is enabled, else it returns
AfterBlocks == IF LOG_KEYS THEN "log" ELSE "idle"

\* lines 250-261, 269-272, 278-281, 291-293: read the clock, classify the key
\* and reach the locked block, the diagnostic write or the return
OnPressBegin(k) ==
    /\ ppc = "idle"
    /\ t_overlap' = (t_overlap \/ tpc \in {"acq", "prune", "ret"})
    /\ p_wrote' = "none"
    /\ IF Faults(k)
       THEN /\ ppc' = ListenerAfterFault             \* except Exception: return
            /\ UNCHANGED << p_now, p_key, p_blk >>
       ELSE IF LockedBlock(k, COUNT_WORDS_MODE) = "none"
       THEN /\ ppc' = AfterBlocks
            /\ p_now' = (IF LOG_KEYS THEN clock ELSE 0)
            /\ p_key' = (IF LOG_KEYS THEN k ELSE NoKey)
            /\ p_blk' = "none"
       ELSE /\ ppc' = "acq"
            /\ p_now' = clock
            /\ p_key' = (IF LOG_KEYS \/ LockedBlock(k, COUNT_WORDS_MODE) = "buf"
                         THEN k ELSE NoKey)
            /\ p_blk' = LockedBlock(k, COUNT_WORDS_MODE)
    /\ UNCHANGED << flags, probe, sampled, clock, lock, shared, ui, timer >>

\* a key press of an unscripted run
KeyPressUpTo(events) ==
    /\ script = << >>
    /\ Len(recorded) < events
    /\ \E k \in KeyEvents :
          /\ IsPrintable(k.ch) => Len(current_word_chars) < MaxWord
          /\ OnPressBegin(k)
    /\ UNCHANGED input

KeyPress == KeyPressUpTo(MaxEvents)

KeyPressApi == KeyPressUpTo(ApiEvents)

\* the next key press of a scripted run
ScriptKey ==
    /\ pos < Len(script)
    /\ OnPressBegin(script[pos + 1])
    /\ pos' = pos + 1
    /\ UNCHANGED script

OnPressAcquire ==
    /\ ppc = "acq"
    /\ CanAcquire(lock)
    /\ lock' = TRUE
    /\ ppc' = "body"
    /\ UNCHANGED << flags, probe, sampled, p_wrote, clock, shared, ui, p_now, p_key, p_blk, timer, t_overlap, input >>

\* the locked block: 263, 274-277, 283-285 or 294, and the lock is released
OnPressBody ==
    /\ ppc = "body"
    /\ IF p_blk = "buf"
       THEN /\ current_word_chars' = Append(current_word_chars, p_key.ch)
            /\ UNCHANGED << timestamps, recorded >>
       ELSE IF p_blk = "word"
       THEN IF Len(current_word_chars) > 0
            THEN /\ timestamps' = AppendTs(timestamps, p_now)
                 /\ recorded' = Append(recorded, p_now)
                 /\ current_word_chars' = << >>
            ELSE UNCHANGED shared
       ELSE /\ timestamps' = AppendTs(timestamps, p_now)
            /\ recorded' = Append(recorded, p_now)
            /\ UNCHANGED current_word_chars
    /\ lock' = FALSE
    /\ ppc' = AfterBlocks
    /\ IF LOG_KEYS THEN UNCHANGED << p_now, p_key, p_blk >>
       ELSE p_now' = 0 /\ p_key' = NoKey /\ p_blk' = "none"
    /\ UNCHANGED << flags, probe, sampled, p_wrote, clock, ui, timer, t_overlap, input >>

\* a slip: the write is made before the keystroke append of 290-294, so that a
\* failed write, caught by the outer except, leaves the event uncounted
OnPressLogBeforeAppend ==
    /\ ppc = "log"
    /\ \E ok \in BOOLEAN :
          /\ p_wrote' = (IF ok THEN "written" ELSE "failed")
          /\ IF ~ ok /\ p_blk = "ts" /\ timestamps # << >>
             THEN /\ timestamps' = SubSeq(timestamps, 1, Len(timestamps) - 1)
                  /\ recorded' = SubSeq(recorded, 1, Len(recorded) - 1)
                  /\ UNCHANGED current_word_chars
             ELSE UNCHANGED shared
          /\ ppc' = "idle"
          /\ p_now' = 0 /\ p_key' = NoKey /\ p_blk' = "none"
    /\ UNCHANGED << flags, probe, sampled, clock, lock, ui, timer, t_overlap, input >>

\* lines 297-302: the write to keys.log, which may fail; either way on_press returns
OnPressLog ==
    /\ ppc = "log"
    /\ \E ok \in BOOLEAN :
          /\ p_wrote' = (IF ok THEN "written" ELSE "failed")
          /\ ppc' = "idle"
          /\ p_now' = 0 /\ p_key' = NoKey /\ p_blk' = "none"
    /\ UNCHANGED << flags, probe, sampled, clock, lock, shared, ui, timer, t_overlap, input >>

-----------------------------------------------------------------------------
(* update_ui and calculate_wpm, on the main thread *)

\* calculate_wpm(w) is called: calculate_count reads the clock (311-312)
CalculateCountBegin(i, w) ==
    /\ t_i' = i
    /\ t_w' = w
    /\ t_now' = clock
    /\ t_cnt' = 0
    /\ t_ret' = NoResult
    /\ t_overlap' = (ppc # "idle")
    /\ tpc' = "acq"

\* the timer fires: update_ui starts with calculate_wpm(15)
UpdateUiBeginUpTo(ticks) ==
    /\ tpc = "idle"
    /\ Len(sampled) < ticks
    /\ CalculateCountBegin(1, UiWindows[1])
    /\ UNCHANGED << flags, probe, sampled, p_wrote, clock, lock, shared, ui, listener, t_wpm, input >>

UpdateUiBegin == UpdateUiBeginUpTo(MaxTicks)

\* the ticks that follow the HISTORY_LEN - 1 of InitHistory
UpdateUiBeginHistory == UpdateUiBeginUpTo(HISTORY_LEN - 1 + MaxTicks)

\* calculate_wpm(w) called on its own, for any window
DirectCall ==
    /\ tpc = "idle"
    /\ \E w \in DirectWindows : CalculateCountBegin(0, w)
    /\ UNCHANGED << flags, probe, sampled, p_wrote, clock, lock, shared, ui, listener, t_wpm, input >>

TimerAcquire ==
    /\ tpc = "acq"
    /\ CanAcquire(lock)
    /\ lock' = TRUE
    /\ tpc' = "prune"
    /\ UNCHANGED << flags, probe, sampled, p_wrote, clock, shared, ui, listener, t_i, t_w, t_now, t_cnt, t_ret,
                    t_wpm, t_overlap, input >>

\* one round of the prune loop (315-316)
TimerPrune ==
    /\ tpc = "prune"
    /\ PruneCond(timestamps, Cutoff(t_now, t_w))
    /\ timestamps' = Tail(timestamps)
    /\ UNCHANGED << flags, probe, sampled, p_wrote, clock, lock, current_word_chars, recorded, ui, listener, timer,
                    t_overlap, input >>

\* a slip: "if" for "while": the count is taken after at most one round
TimerCountNoLoop ==
    /\ tpc = "prune"
    /\ t_cnt' = CountSince(timestamps, t_now - t_w)
    /\ lock' = FALSE
    /\ t_ret' = WpmTable[t_cnt', t_w]
    /\ tpc' = "ret"
    /\ UNCHANGED << flags, probe, sampled, p_wrote, clock, shared, ui, listener, t_i, t_w, t_now,
                    t_wpm, t_overlap, input >>

\* a slip: self.lock.acquire() with no release() for "with self.lock"
TimerCountKeepsLock ==
    /\ tpc = "prune"
    /\ ~ PruneCond(timestamps, Cutoff(t_now, t_w))
    /\ t_cnt' = CountSince(timestamps, t_now - t_w)
    /\ t_ret' = WpmTable[t_cnt', t_w]
    /\ tpc' = "ret"
    /\ UNCHANGED << flags, probe, sampled, p_wrote, clock, lock, shared, ui, listener, t_i, t_w,
                    t_now, t_wpm, t_overlap, input >>

\* the loop ends, the count is taken and the lock released (317); calculate_count
\* returns and calculate_wpm computes its result (318-326)
TimerCount ==
    /\ tpc = "prune"
    /\ ~ PruneCond(timestamps, Cutoff(t_now, t_w))
    /\ t_cnt' = CountSince(timestamps, t_now - t_w)
    /\ lock' = FALSE
    /\ t_ret' = WpmTable[t_cnt', t_w]
    /\ tpc' = "ret"
    /\ UNCHANGED << flags, probe, sampled, p_wrote, clock, shared, ui, listener, t_i, t_w, t_now,
                    t_wpm, t_overlap, input >>

\* calculate_wpm returns to its caller: update_ui goes on with its next call
\* (370, 371) or with the labels; an exception would end update_ui for good
TimerReturn ==
    /\ tpc = "ret"
    /\ IF t_ret.raised
       THEN /\ tpc' = "failed"
            /\ UNCHANGED << t_i, t_w, t_now, t_cnt, t_ret, t_wpm, t_overlap >>
       ELSE IF t_i = 0
       THEN /\ tpc' = "idle"
            /\ t_i' = 0 /\ t_w' = 0 /\ t_now' = 0 /\ t_cnt' = 0 /\ t_ret' = NoResult
            /\ t_overlap' = FALSE
            /\ UNCHANGED t_wpm
       ELSE /\ t_wpm' = Append(t_wpm, t_ret.value)
            /\ IF t_i < Len(UiWindows)
               THEN CalculateCountBegin(t_i + 1, UiWindows[t_i + 1])
               ELSE /\ tpc' = "ui"
                    /\ t_i' = 0 /\ t_w' = 0 /\ t_now' = 0 /\ t_cnt' = 0 /\ t_ret' = NoResult
                    /\ t_overlap' = FALSE
    /\ UNCHANGED << flags, probe, sampled, p_wrote, clock, lock, shared, ui, listener, input >>

\* lines 374-388: the accent colour, the labels, the history sample, the graph,
\* and the timer is set again
UpdateUiFinish ==
    /\ tpc = "ui"
    /\ fg_color' = get_color_for_wpm(t_wpm[1])
    /\ wpm_history' = HistoryAppend(wpm_history, t_wpm[1])
    /\ sampled' = Append(sampled, t_wpm[1])
    /\ t_wpm' = << >>
    /\ tpc' = "idle"
    /\ UNCHANGED << flags, probe, p_wrote, clock, lock, shared, listener, t_i, t_w, t_now, t_cnt, t_ret,
                    t_overlap, input >>

\* the arguments of the direct get_color_for_wpm calls: the bounds of the bands
\* and their neighbours
ColorInputs == {-1, 0, 29, 30, 31, 60, 61, 90, 91, 9998, 9999, 10000}

\* get_color_for_wpm(wpm) called on its own, for any wpm
DirectColor ==
    /\ \E wpm \in ColorInputs :
          /\ c_wpm' = wpm
          /\ c_col' = get_color_for_wpm(wpm)
    /\ UNCHANGED << flags, sampled, p_wrote, clock, lock, shared, ui, listener, timer,
                    t_overlap, input >>

-----------------------------------------------------------------------------
(* Specifications *)

ListenerSteps == OnPressAcquire \/ OnPressBody

CountSteps == TimerAcquire \/ TimerPrune \/ TimerCount \/ TimerReturn

\* the program: the listener, the update_ui timer and the clock
Next == Tick \/ KeyPress \/ ListenerSteps \/ UpdateUiBegin \/ CountSteps \/ UpdateUiFinish

Spec == Init /\ [][Next]_vars

\* the estimator under direct calls of calculate_wpm with any window
NextApi == Tick \/ KeyPressApi \/ ListenerSteps \/ DirectCall \/ CountSteps

SpecApi == Init /\ [][NextApi]_vars

\* the program with the diagnostic sink enabled, on the coarse clock
NextLog ==
    \/ TickScript
    \/ KeyPress \/ ListenerSteps \/ OnPressLog
    \/ UpdateUiBegin \/ CountSteps \/ UpdateUiFinish

SpecLog == InitLog /\ [][NextLog]_vars

\* the program fed a fixed sequence of key events
NextScript ==
    \/ TickScript
    \/ ScriptKey
    \/ ListenerSteps
    \/ UpdateUiBegin \/ CountSteps \/ UpdateUiFinish

SpecScript == InitScript /\ [][NextScript]_vars

\* the program on the coarse clock under fair scheduling: a thread that can take a
\* step takes one, and a thread waiting for the lock gets it if it is free again
\* and again
NextFair ==
    \/ TickScript
    \/ KeyPress \/ ListenerSteps
    \/ UpdateUiBegin \/ CountSteps \/ UpdateUiFinish

Fairness ==
    /\ SF_vars(OnPressAcquire) /\ WF_vars(OnPressBody)
    /\ SF_vars(TimerAcquire) /\ WF_vars(TimerPrune) /\ WF_vars(TimerCount)
    /\ WF_vars(TimerReturn) /\ WF_vars(UpdateUiFinish)

SpecFair == Init /\ [][NextFair]_vars /\ Fairness

\* the colour helper under direct calls, beside the listener
NextColor == Tick \/ KeyPress \/ ListenerSteps \/ DirectColor

SpecColor == Init /\ [][NextColor]_vars

\* the program from its sixtieth tick on
NextHistory ==
    Tick \/ KeyPress \/ ListenerSteps \/ UpdateUiBeginHistory \/ CountSteps \/ UpdateUiFinish

SpecHistory == InitHistory /\ [][NextHistory]_vars

-----------------------------------------------------------------------------
(* Properties *)

Sorted(ts) == \A i, j \in 1..Len(ts) : i < j => ts[i] <= ts[j]

StrictlyIncreasing(ts) == \A i, j \in 1..Len(ts) : i < j => ts[i] < ts[j]

\* how many entries of ts lie in [from, to]
CountBetween(ts, from, to) == Cardinality({i \in 1..Len(ts) : from <= ts[i] /\ ts[i] <= to})

\* C1: at most one thread is inside a "with self.lock" block at a time, the lock
\* is locked while one is, and every step that changes the EventLog or the
\* WordBuffer, and the count scan, is taken by the one thread inside its block.
C1_OneHolder ==
    /\ ~ (ppc = "body" /\ tpc = "prune")
    /\ (ppc = "body" \/ tpc = "prune") => lock

C1_AccessStep ==
    /\ (timestamps' # timestamps \/ current_word_chars' # current_word_chars)
          => /\ lock
             /\ (ppc = "body" /\ ppc' # "body") # (tpc = "prune")
    /\ (tpc = "prune" /\ tpc' # "prune") => (lock /\ ppc # "body")

C1_LockedAccess == []C1_OneHolder /\ [][C1_AccessStep]_vars

\* C1 witness: the timer thread is inside its prune loop, with a timestamp to drop,
\* while the listener thread waits for the lock with a timestamp to append
C1_Witness ==
    /\ tpc = "prune" /\ ppc = "acq" /\ lock
    /\ p_blk = "ts"
    /\ PruneCond(timestamps, Cutoff(t_now, t_w))

\* C2: the EventLog is sorted in non-decreasing order in every reachable state.
C2_Sorted == Sorted(timestamps)

\* C2 witness: two timestamps of different readings are in the log, the later one
\* appended while a timer query was under way, after the clock had moved on
C2_Witness ==
    /\ Len(timestamps) >= 2
    /\ timestamps[1] < timestamps[Len(timestamps)]
    /\ timestamps[Len(timestamps)] < clock
    /\ tpc = "ret" /\ t_overlap

\* C3: a calculate_count(w) call with w no larger than the retention horizon that
\* no on_press overlapped returns the number of recorded timestamps in
\* [now - w, now], whatever calls came before, when the timestamps were
\* recorded at strictly increasing times.
C3_CountInWindow ==
    (tpc = "ret" /\ ~ t_overlap /\ t_w <= MinHorizon /\ StrictlyIncreasing(recorded))
        => t_cnt = CountBetween(recorded, t_now - t_w, t_now)

\* C3 witness: a call, after an earlier prune, that counts some but not all of
\* the timestamps recorded
C3_Witness ==
    /\ tpc = "ret" /\ ~ t_overlap /\ t_w > 0 /\ t_w <= MinHorizon
    /\ StrictlyIncreasing(recorded)
    /\ Len(timestamps) < Len(recorded)
    /\ t_cnt >= 1 /\ t_cnt < Len(timestamps)

\* C4: after a calculate_count call, whatever its window and the calls before it,
\* every recorded timestamp t with now - t <= 65 is still in the EventLog.
C4_RetainsRecent ==
    tpc = "ret" => CountSince(timestamps, t_now - 65) = CountSince(recorded, t_now - 65)

\* C4 witness: a call that pruned, and left in the log a timestamp older than its
\* own window plus margin
C4_Witness ==
    /\ tpc = "ret" /\ t_w > 0
    /\ Len(timestamps) < Len(recorded)
    /\ \E i \in 1..Len(timestamps) :
          /\ t_now - timestamps[i] > t_w + HorizonMargin
          /\ t_now - timestamps[i] <= 65

\* the counts of the queries of order, issued one after the other on the log ts
\* at the clock reading now
RECURSIVE CountsInOrder(_, _, _)
CountsInOrder(ts, now, order) ==
    IF order = << >> THEN << >>
    ELSE LET r == calculate_count(ts, now, Head(order))
         IN  << r.cnt >> \o CountsInOrder(r.timestamps, now, Tail(order))

\* the six orders of the three queries of update_ui
QueryOrders ==
    {o \in [1..Len(UiWindows) -> {UiWindows[i] : i \in 1..Len(UiWindows)}] :
        \A i, j \in 1..Len(UiWindows) : i # j => o[i] # o[j]}

\* C5: for the EventLog and clock reading of any state in which update_ui may
\* start, each of the three window queries returns the same count in all six
\* orders of issue, the count it returns when issued alone.
C5_OrderIndependent ==
    tpc = "idle" =>
        \A order \in QueryOrders :
            LET counts == CountsInOrder(timestamps, clock, order)
            IN  \A k \in 1..Len(order) :
                    counts[k] = calculate_count(timestamps, clock, order[k]).cnt

\* C5 witness: update_ui may start on a log that holds a timestamp inside the 60 s
\* window and older than the horizon the 15 s window alone would give, after an
\* earlier tick has pruned
C5_Witness ==
    /\ tpc = "idle" /\ wpm_history # << >>
    /\ Len(timestamps) < Len(recorded)
    /\ \E i \in 1..Len(timestamps) :
          /\ clock - timestamps[i] > UiWindows[1] + HorizonMargin
          /\ clock - timestamps[i] <= UiWindows[3]

\* C6: calculate_count(w) called again right after a call that no on_press
\* overlapped, at the same clock reading, returns the same count and leaves the
\* EventLog as the first call left it; and so do two calls in a row on the
\* EventLog of any reachable state.
C6_Idempotent ==
    /\ (tpc = "ret" /\ ~ t_overlap)
          => calculate_count(timestamps, t_now, t_w) = [timestamps |-> timestamps, cnt |-> t_cnt]
    /\ \A w \in DirectWindows :
          LET first == calculate_count(timestamps, clock, w)
          IN  calculate_count(first.timestamps, clock, w) = first

\* C6 witness: a call that pruned two timestamps and counted one has returned
C6_Witness ==
    /\ tpc = "ret" /\ ~ t_overlap
    /\ Len(recorded) - Len(timestamps) >= 2
    /\ t_cnt >= 1

\* what the claims call a countable event: a printable character, space or enter
Countable(k) ==
    \/ k.ch \in PrintableChars
    \/ k.ch = NoChar /\ k.key \in {"Key.space", "Key.enter"}

SpaceOrEnter(k) == k.ch = NoChar /\ k.key \in {"Key.space", "Key.enter"}

\* the timestamps word mode is to record for keys: one per space or enter that
\* finds characters typed since the last one
RECURSIVE WordsIn(_, _)
WordsIn(keys, buffered) ==
    IF keys = << >> THEN 0
    ELSE IF SpaceOrEnter(Head(keys))
         THEN (IF buffered THEN 1 ELSE 0) + WordsIn(Tail(keys), FALSE)
    ELSE WordsIn(Tail(keys), buffered \/ Countable(Head(keys)))

\* the timestamps keystroke mode is to record for keys: one per countable event
KeystrokesIn(keys) == Cardinality({i \in 1..Len(keys) : Countable(keys[i])})

\* C7: in word mode a timestamp is appended exactly by the locked block of a space
\* or enter event that finds the WordBuffer non-empty; a printable character only
\* extends the buffer; the buffer is empty after every space or enter; once a
\* script is played out the log has recorded one timestamp per completed word,
\* 2 for h,e,l,l,o,space,w,o,r,l,d,enter.
C7_Step ==
    /\ recorded' # recorded
          => /\ ppc = "body" /\ SpaceOrEnter(script[pos]) /\ current_word_chars # << >>
             /\ recorded' = Append(recorded, p_now)
             /\ timestamps' = Append(timestamps, p_now)
    /\ (ppc = "body" /\ ppc' # "body")
          => IF SpaceOrEnter(script[pos])
             THEN /\ current_word_chars' = << >>
                  /\ current_word_chars # << >> => recorded' # recorded
             ELSE current_word_chars' = Append(current_word_chars, script[pos].ch)
    /\ ppc # "body" => current_word_chars' = current_word_chars

C7_Final ==
    (pos = Len(script) /\ ppc = "idle")
        => /\ Len(recorded) = WordsIn(script, FALSE)
           /\ script = HelloWorld => (Len(recorded) = 2 /\ current_word_chars = << >>)

C7_WordMode == [](COUNT_WORDS_MODE => C7_Final) /\ [][COUNT_WORDS_MODE => C7_Step]_vars

\* C7 witness: word mode has played out the twelve events and recorded two timestamps
C7_Witness ==
    /\ COUNT_WORDS_MODE /\ script = HelloWorld /\ pos = Len(script) /\ ppc = "idle"
    /\ Len(recorded) = 2 /\ current_word_chars = << >>

\* C8: in keystroke mode every countable event, and no other, goes on to the
\* locked block, which appends exactly one timestamp; the WordBuffer never
\* changes; once a script is played out the log has recorded one timestamp per
\* countable event, 12 for h,e,l,l,o,space,w,o,r,l,d,enter.
C8_Step ==
    /\ current_word_chars' = current_word_chars
    /\ pos' = pos + 1 => (Countable(script[pos']) <=> ppc' = "acq")
    /\ recorded' # recorded
          => /\ ppc = "body" /\ Countable(script[pos])
             /\ recorded' = Append(recorded, p_now)
             /\ timestamps' = Append(timestamps, p_now)
    /\ (ppc = "body" /\ ppc' # "body") => recorded' # recorded

C8_Final ==
    (pos = Len(script) /\ ppc = "idle")
        => /\ Len(recorded) = KeystrokesIn(script)
           /\ script = HelloWorld => Len(recorded) = 12

C8_KeystrokeMode ==
    [](~ COUNT_WORDS_MODE => C8_Final) /\ [][~ COUNT_WORDS_MODE => C8_Step]_vars

\* C8 witness: keystroke mode has played out the twelve events and recorded twelve
\* timestamps
C8_Witness ==
    /\ ~ COUNT_WORDS_MODE /\ script = HelloWorld /\ pos = Len(script) /\ ppc = "idle"
    /\ Len(recorded) = 12 /\ current_word_chars = << >>

\* C9: for every window w > 0, calculate_wpm(w) returns floor(12 * count / w) for
\* the count calculate_count(w) returned; with 3 events counted, wpm(15) is 2.
C9_WpmIsFloor ==
    (tpc = "ret" /\ t_w > 0)
        => /\ t_ret = [raised |-> FALSE, value |-> (12 * t_cnt) \div t_w]
           /\ (t_w = 15 /\ t_cnt = 3) => t_ret.value = 2

\* C10: for every window w <= 0, calculate_wpm(w) returns 0 and raises nothing.
C10_NonPositiveWindow ==
    /\ tpc # "failed"
    /\ (tpc = "ret" /\ t_w <= 0) => t_ret = [raised |-> FALSE, value |-> 0]

\* C10 witness: a call with window 0 that counted an event has returned
C10_Witness == tpc = "ret" /\ t_w <= 0 /\ t_cnt >= 1

\* the counts the model can compare: those of WpmTable
TableCounts == 0..Max(ApiEvents, Len(HelloWorld))

\* C11: for a window w > 0, what calculate_wpm(w) returns is at least what it
\* returns for every smaller count of events in the window, and at most what it
\* returns for every larger one.
C11_Monotone ==
    (tpc = "ret" /\ t_w > 0)
        => \A c \in TableCounts :
              /\ c <= t_cnt => WpmTable[c, t_w].value <= t_ret.value
              /\ c >= t_cnt => WpmTable[c, t_w].value >= t_ret.value

\* C11 witness: a call that counted three events and returned more than it returns
\* for two
C11_Witness ==
    /\ tpc = "ret" /\ t_w > 0 /\ t_cnt >= 3
    /\ t_ret.value > WpmTable[t_cnt - 1, t_w].value

\* the colour of the band called name
ColorOf(name) ==
    (CHOOSE b \in {COLOR_THRESHOLDS[i] : i \in 1..Len(COLOR_THRESHOLDS)} : b.name = name).col

\* C12: get_color_for_wpm(wpm) returns the colour of the first band, in the order
\* slow(30), avg(60), good(90), best(9999), whose bound is >= wpm, and the colour
\* of best when wpm is above every bound; 30 gives slow's colour, 31 avg's, 9999
\* best's and 10000 best's.
C12_ColorFor ==
    c_col # "none" =>
        /\ [i \in 1..4 |-> << COLOR_THRESHOLDS[i].name, COLOR_THRESHOLDS[i].thr >>]
              = << << "slow", 30 >>, << "avg", 60 >>, << "good", 90 >>, << "best", 9999 >> >>
        /\ LET fits == {i \in 1..Len(COLOR_THRESHOLDS) : COLOR_THRESHOLDS[i].thr >= c_wpm}
           IN  IF fits = {} THEN c_col = ColorOf("best")
               ELSE \E i \in fits : (\A j \in fits : i <= j) /\ c_col = COLOR_THRESHOLDS[i].col
        /\ c_wpm = 30 => c_col = ColorOf("slow")
        /\ c_wpm = 31 => c_col = ColorOf("avg")
        /\ c_wpm = 9999 => c_col = ColorOf("best")
        /\ c_wpm = 10000 => c_col = ColorOf("best")

\* C12 witness: the call with 10000, above every bound, has returned best's colour
C12_Witness == c_wpm = 10000 /\ c_col = "#02d9f6"

\* the last n entries of q, all of q when it has no more than n
LastOf(q, n) == IF Len(q) <= n THEN q ELSE SubSeq(q, Len(q) - n + 1, Len(q))

\* C13: wpm_history never holds more than HISTORY_LEN samples; it is the last
\* HISTORY_LEN of the samples appended so far, oldest first; and every tick appends
\* exactly one sample, the 15-second WPM of that tick.
C13_Bounded ==
    /\ Len(wpm_history) <= HISTORY_LEN
    /\ wpm_history = LastOf(sampled, HISTORY_LEN)

C13_TickStep ==
    (tpc = "ui" /\ tpc' = "idle")
        => /\ Len(t_wpm) = Len(UiWindows)
           /\ wpm_history' = LastOf(Append(wpm_history, t_wpm[1]), HISTORY_LEN)
           /\ Len(sampled') = Len(sampled) + 1

C13_History == []C13_Bounded /\ [][C13_TickStep]_vars

\* C13 witness: after more than HISTORY_LEN ticks the history is full and its two
\* newest samples differ
C13_Witness ==
    /\ Len(sampled) > HISTORY_LEN
    /\ Len(wpm_history) = HISTORY_LEN
    /\ wpm_history[HISTORY_LEN - 1] > wpm_history[HISTORY_LEN]

\* a key event whose classification faults
Malformed(k) == k.ch = BadChar

\* C14: on_press never ends the listener thread; the call for a malformed key
\* event returns at once, appends no timestamp, leaves the EventLog, the
\* WordBuffer and the lock as they were; and the events that follow one are
\* classified as if it had not been there.
C14_Alive == ppc # "dead"

C14_Step ==
    /\ (pos' = pos + 1 /\ Malformed(script[pos']))
          => /\ ppc' = "idle"
             /\ timestamps' = timestamps /\ recorded' = recorded
             /\ current_word_chars' = current_word_chars
             /\ lock' = lock
    /\ (pos' = pos + 1 /\ ~ Malformed(script[pos']))
          => /\ ppc = "idle"
             /\ (ppc' = "acq") = (LockedBlock(script[pos'], COUNT_WORDS_MODE) # "none")
             /\ p_blk' = LockedBlock(script[pos'], COUNT_WORDS_MODE)

\* the key events of keys that are not malformed
RECURSIVE WellFormed(_)
WellFormed(keys) ==
    IF keys = << >> THEN << >>
    ELSE IF Malformed(Head(keys)) THEN WellFormed(Tail(keys))
    ELSE << Head(keys) >> \o WellFormed(Tail(keys))

\* the timestamps a script is to record once its malformed events are left out,
\* per script and mode, computed once
CountWithoutMalformed ==
    [sc \in Scripts, words_mode \in BOOLEAN |->
        IF words_mode THEN WordsIn(WellFormed(sc), FALSE) ELSE KeystrokesIn(WellFormed(sc))]

C14_Final ==
    (pos = Len(script) /\ ppc = "idle")
        => Len(recorded) = CountWithoutMalformed[script, COUNT_WORDS_MODE]

C14_NoPropagation == [](C14_Alive /\ C14_Final) /\ [][C14_Step]_vars

\* C14 witness: a malformed event was delivered first, and the event after it has
\* been counted
C14_Witness ==
    /\ pos = 2 /\ Malformed(script[1]) /\ ppc = "idle"
    /\ Len(recorded) = 1 /\ ~ lock

\* C15: with the diagnostic sink enabled, the step in which on_press writes to it
\* ends the call normally and leaves the EventLog, the WordBuffer and the lock as
\* they were, whether the write succeeds or fails; on_press never ends the
\* listener thread.
C15_Step ==
    (ppc = "log" /\ ppc' # "log")
        => /\ p_wrote' \in {"written", "failed"}
           /\ ppc' = "idle"
           /\ timestamps' = timestamps /\ recorded' = recorded
           /\ current_word_chars' = current_word_chars
           /\ lock' = lock

C15_SinkFailure == [](LOG_KEYS /\ ppc # "dead") /\ [][C15_Step]_vars

\* C15 witness: the sink write of the call that recorded the last timestamp has
\* failed, the call has returned and the timestamp is in the EventLog
C15_Witness ==
    /\ p_wrote = "failed" /\ ppc = "idle"
    /\ Len(recorded) = MaxEvents
    /\ timestamps # << >> /\ timestamps[Len(timestamps)] = recorded[Len(recorded)]

\* C16: a thread that waits for the lock waits for the other thread, never for
\* itself; the two threads never both wait while the lock is held; under fair
\* scheduling a held lock is released, and every thread that waits for the lock
\* gets it.
C16_NotBlocked ==
    /\ (ppc = "acq" /\ lock) => tpc = "prune"
    /\ (tpc = "acq" /\ lock) => ppc = "body"
    /\ ~ (ppc = "acq" /\ tpc = "acq" /\ lock)

C16_NoDeadlock ==
    /\ []C16_NotBlocked
    /\ lock ~> ~ lock
    /\ (ppc = "acq") ~> (ppc = "body")
    /\ (tpc = "acq") ~> (tpc = "prune")

\* C16 witness: the main thread waits for the lock while the listener thread is in
\* its locked block
C16_Witness == tpc = "acq" /\ ppc = "body" /\ lock

Inert(k) == ~ Malformed(k) /\ ~ Countable(k)

\* C18: in both modes the on_press call for a key event with no printable
\* character that is neither space nor enter returns without reaching a locked
\* block and leaves the EventLog, the WordBuffer and the lock as they were; a run
\* of such events alone records nothing.
C18_Step ==
    (pos' = pos + 1 /\ Inert(script[pos']))
        => /\ ppc' = "idle"
           /\ timestamps' = timestamps /\ recorded' = recorded
           /\ current_word_chars' = current_word_chars
           /\ lock' = lock

C18_AllInert ==
    (\A i \in 1..Len(script) : Inert(script[i]))
        => recorded = << >> /\ timestamps = << >> /\ current_word_chars = << >>

C18_NoSideEffect == []C18_AllInert /\ [][C18_Step]_vars

\* C18 witness: word mode has been handed a modifier key and a control character
\* and has recorded nothing
C18_Witness ==
    /\ COUNT_WORDS_MODE /\ script = << ShiftKey, CtrlKey >> /\ pos = 2 /\ ppc = "idle"
    /\ recorded = << >> /\ current_word_chars = << >>

\* C19: while on_press writes to the diagnostic sink, and while update_ui updates
\* the labels, the history and the graph, the lock is free or held by the other
\* thread inside its own locked block.
C19_NoIoUnderLock ==
    /\ (ppc = "log" /\ lock) => tpc = "prune"
    /\ (tpc = "ui" /\ lock) => ppc = "body"

\* C19 witness: on_press, its timestamp appended, is at the sink write while the
\* main thread is inside its locked block
C19_Witness == ppc = "log" /\ p_blk = "ts" /\ tpc = "prune" /\ lock

\* C20: whatever on_press calls run beside it, a calculate_count(w) call returns
\* the number of recorded timestamps t with now - w <= t <= now, for the now it
\* read itself: none later than its now is counted (C20_NoneLater) and none of
\* its window is missed.
C20_NoneLater ==
    (tpc = "ret" /\ t_w > 0 /\ t_w <= MinHorizon)
        => t_cnt <= CountBetween(recorded, t_now - t_w, t_now)

C20_NoneMissed ==
    (tpc = "ret" /\ t_w > 0 /\ t_w <= MinHorizon)
        => t_cnt >= CountBetween(recorded, t_now - t_w, t_now)

C20_ExactUnderInterleaving == C20_NoneLater /\ C20_NoneMissed

====
